---- MODULE Spec2Model ----
(***************************************************************************)
(* Model of mimosa: band normalisation, normalized-difference indices,    *)
(* RGB compositing, index visualisation, the composite preset registry    *)
(* (src/src/mimosa/composite.py) and the directory scanner                *)
(* (src/src/mimosa/data.py).                                              *)
(*                                                                         *)
(* Floating-point values are modelled as exact rationals <<n, d>> in       *)
(* lowest terms with d > 0; <<0, 0>> is NaN, the result of a division by   *)
(* zero or of a percentile of no data.  Band inputs are finite numbers.    *)
(* An array is [shape |-> <<H, W>>, data |-> row-major sequence].          *)
(***************************************************************************)
EXTENDS Integers, Sequences, FiniteSets, TLC

VARIABLES
    band,               \* normalize_band: the band argument
    mask,               \* normalize_band: the mask argument (None or array)
    percentile_clip,    \* normalize_band: the (low, high) percentile pair
    bands,              \* Band Set: band identifier -> band array
    masks,              \* Mask Set: band identifier -> mask array
    index_data,         \* create_index_visualization: the index array
    COMPOSITE_PRESETS,  \* the preset registry: name -> record
    root,               \* data_dir: the set of directory entries
    held,               \* the preset records the caller has received
    result              \* the last call: [fn, args, ret] (ret or exception)

vars == <<band, mask, percentile_clip, bands, masks, index_data,
          COMPOSITE_PRESETS, root, held, result>>

----------------------------------------------------------------------------
(* Bounds *)

\* the arrays of a Band Set, a Mask Set and an index hold at most MaxPixels
\* pixels
MaxPixels == 2

\* the band and mask passed to normalize_band alone hold at most
\* MaxNormPixels pixels
MaxNormPixels == 3

\* a root directory holds at most MaxEntries entries
MaxEntries == 3

\* the caller keeps at most MaxHeld preset records
MaxHeld == 2

----------------------------------------------------------------------------
(* Floating-point arithmetic as exact rationals *)

NaN == <<0, 0>>

Abs(x) == IF x < 0 THEN -x ELSE x

RECURSIVE GCD(_, _)
GCD(a, b) == IF b = 0 THEN a ELSE GCD(b, a % b)

Rat(n, d) ==
    IF d = 0 THEN NaN
    ELSE LET g == GCD(Abs(n), Abs(d))
             s == IF d < 0 THEN -1 ELSE 1
         IN  <<(s * n) \div g, (s * d) \div g>>

Zero == <<0, 1>>
One == <<1, 1>>

IsNaN(x) == x[2] = 0

FAdd(x, y) ==
    IF IsNaN(x) \/ IsNaN(y) THEN NaN
    ELSE Rat(x[1] * y[2] + y[1] * x[2], x[2] * y[2])

FSub(x, y) ==
    IF IsNaN(x) \/ IsNaN(y) THEN NaN
    ELSE Rat(x[1] * y[2] - y[1] * x[2], x[2] * y[2])

FMul(x, y) ==
    IF IsNaN(x) \/ IsNaN(y) THEN NaN
    ELSE Rat(x[1] * y[1], x[2] * y[2])

\* x / y; a zero divisor gives NaN (0/0) or an infinity, both outside the
\* finite values: the model folds them into NaN
FDiv(x, y) ==
    IF IsNaN(x) \/ IsNaN(y) \/ y[1] = 0 THEN NaN
    ELSE Rat(x[1] * y[2], x[2] * y[1])

\* comparisons are false when an operand is NaN
FLt(x, y) == ~IsNaN(x) /\ ~IsNaN(y) /\ x[1] * y[2] < y[1] * x[2]
FLe(x, y) == ~IsNaN(x) /\ ~IsNaN(y) /\ x[1] * y[2] <= y[1] * x[2]

\* np.clip(x, lo, hi) == minimum(maximum(x, lo), hi), NaN propagating
Clip(x, lo, hi) ==
    IF IsNaN(x) \/ IsNaN(lo) \/ IsNaN(hi) THEN NaN
    ELSE LET m == IF FLt(x, lo) THEN lo ELSE x
         IN  IF FLt(hi, m) THEN hi ELSE m

\* floor of a non-NaN rational
Floor(x) == x[1] \div x[2]

\* truncation toward zero
Trunc(x) == IF x[1] >= 0 THEN x[1] \div x[2] ELSE -((-x[1]) \div x[2])

----------------------------------------------------------------------------
(* Arrays *)

None == [shape |-> <<>>, data |-> <<>>]

Size(shape) == shape[1] * shape[2]

\* shapes (H, W) with at most n pixels
Shapes(n) == {s \in (0..n) \X (0..n) : Size(s) <= n}

\* all arrays of a shape over a value set
Arrays(shape, values) ==
    {[shape |-> shape, data |-> d] : d \in [1..Size(shape) -> values]}

\* band[valid_mask]: the elements selected by a boolean mask, in order
RECURSIVE BoolIndex(_, _)
BoolIndex(data, sel) ==
    IF data = <<>> THEN <<>>
    ELSE LET rest == BoolIndex(Tail(data), Tail(sel))
         IN  IF Head(sel) THEN <<Head(data)>> \o rest ELSE rest

\* the outcome of a call: the value returned or the exception raised
NoResult == [fn |-> "none", args |-> <<>>, ret |-> <<>>, exc |-> "none"]

Return(fn, args, ret) == [fn |-> fn, args |-> args, ret |-> ret, exc |-> "none"]
Raise(fn, args, exc) == [fn |-> fn, args |-> args, ret |-> <<>>, exc |-> exc]

----------------------------------------------------------------------------
(* Array storage: which array an in-place statement writes *)

\* An array lives in the caller's band, mask, bands[id], masks[id] or
\* index_data, in the array a previous call returned, or in an array that a
\* call allocated at a source line.
NoRef == <<"none">>
Allocated(line) == <<"new", line>>

\* ndvi = nir in place of np.zeros_like(nir): the name is bound to the input
ZerosLike_Alias(ref, line) == ref

\* np.zeros_like(a): a new array
ZerosLike(ref, line) == Allocated(line)

\* x[sel] = v: the array at ref holds data once the statement has run; an
\* array allocated during the call dies with it unless it is returned, and
\* its content is not kept here
Assign(ref, data) ==
    IF ref[1] = "new" THEN [target |-> ref, data |-> <<>>]
    ELSE [target |-> ref, data |-> data]

\* the array at ref once the writes of a call have run, value being what it
\* held before
Stored(ref, value, writes) ==
    LET hits == {k \in 1..Len(writes) : writes[k].target = ref}
    IN  IF hits = {} THEN value
        ELSE LET last == CHOOSE k \in hits : \A j \in hits : j <= k
             IN  [shape |-> value.shape, data |-> writes[last].data]

----------------------------------------------------------------------------
(* normalize_band *)

\* the value of a valid pixel in a mask
VALID == 255

\* the default percentile_clip
DefaultClip == <<2, 98>>

\* np.percentile(a, q), linear interpolation: the value at the virtual
\* index (n - 1) * q / 100 of the sorted data; NaN for no data
Percentile(a, q) ==
    IF Len(a) = 0 THEN NaN
    ELSE LET sorted == SortSeq(a, FLt)
             n == Len(a)
             virtual == Rat((n - 1) * q, 100)
             previous == Floor(virtual)
             next == IF previous + 1 > n - 1 THEN n - 1 ELSE previous + 1
             gamma == FSub(virtual, <<previous, 1>>)
             lo == sorted[previous + 1]
             hi == sorted[next + 1]
         IN  FAdd(lo, FMul(FSub(hi, lo), gamma))

\* valid_mask = mask == 255
ValidMask(m) == [i \in 1..Len(m.data) |-> m.data[i] = VALID]

\* the pixels the percentiles are computed over
ValidPixels(b, m) ==
    IF m # None THEN BoolIndex(b.data, ValidMask(m)) ELSE b.data

\* (p_low, p_high): percentiles of the valid pixels, or the fallback
ClipBounds(b, m, pc) ==
    LET valid_pixels == ValidPixels(b, m)
    IN  IF Len(valid_pixels) > 0
        THEN <<Percentile(valid_pixels, pc[1]), Percentile(valid_pixels, pc[2])>>
        ELSE <<Zero, One>>

\* ClipAndNormalize without np.clip: the band is rescaled as it is
ClipAndNormalize_NoClip(b, p_low, p_high) ==
    IF FLt(p_low, p_high)
    THEN [i \in 1..Len(b.data) |->
             FDiv(FSub(b.data[i], p_low), FSub(p_high, p_low))]
    ELSE [i \in 1..Len(b.data) |-> Zero]

\* ClipAndNormalize without the p_high > p_low test: it always divides
ClipAndNormalize_NoGuard(b, p_low, p_high) ==
    [i \in 1..Len(b.data) |->
        FDiv(FSub(Clip(b.data[i], p_low, p_high), p_low), FSub(p_high, p_low))]

\* clip, then rescale to 0..1 when p_high > p_low, zeros otherwise
ClipAndNormalize(b, p_low, p_high) ==
    LET clipped == [i \in 1..Len(b.data) |-> Clip(b.data[i], p_low, p_high)]
    IN  IF FLt(p_low, p_high)
        THEN [i \in 1..Len(b.data) |->
                 FDiv(FSub(clipped[i], p_low), FSub(p_high, p_low))]
        ELSE [i \in 1..Len(b.data) |-> Zero]

\* normalized[~valid_mask] = 0, at one pixel
SetMaskedToZero(x, valid) == IF valid THEN x ELSE Zero

normalize_band(b, m, pc) ==
    LET p == ClipBounds(b, m, pc)
        normalized == ClipAndNormalize(b, p[1], p[2])
        valid_mask == IF m # None THEN ValidMask(m) ELSE <<>>
    IN  [shape |-> b.shape,
         data |-> IF m # None
                  THEN [i \in 1..Len(b.data) |->
                           SetMaskedToZero(normalized[i], valid_mask[i])]
                  ELSE normalized]

\* the in-place statements of normalize_band: normalized[~valid_mask] = 0,
\* where normalized is the array np.clip returned, rebound to the quotient or
\* to np.zeros_like(normalized)
normalize_band_writes(b, m, pc) ==
    LET p == ClipBounds(b, m, pc)
        clipped == Allocated(63)
        normalized == IF FLt(p[1], p[2]) THEN Allocated(65)
                      ELSE ZerosLike(clipped, 67)
    IN  IF m # None
        THEN <<Assign(normalized, normalize_band(b, m, pc).data)>>
        ELSE <<>>

----------------------------------------------------------------------------
(* Index calculators *)

\* NormalizedDifference without the denominator != 0 test
NormalizedDifference_NoZeroTest(a, b, ma, mb) ==
    [shape |-> a.shape,
     data |-> [i \in 1..Len(a.data) |->
                  IF ValidMask(ma)[i] /\ ValidMask(mb)[i]
                  THEN FDiv(FSub(a.data[i], b.data[i]),
                            FAdd(a.data[i], b.data[i]))
                  ELSE Zero]]

\* NormalizedDifference that divides by the first band alone: (a - b) / a
NormalizedDifference_ByFirstBand(a, b, ma, mb) ==
    [shape |-> a.shape,
     data |-> [i \in 1..Len(a.data) |->
                  IF ValidMask(ma)[i] /\ ValidMask(mb)[i] /\ a.data[i] # Zero
                  THEN FDiv(FSub(a.data[i], b.data[i]), a.data[i])
                  ELSE Zero]]

\* the body shared by the four calculators: a is the first band, b the
\* subtracted band, ma and mb their masks
NormalizedDifference(a, b, ma, mb) ==
    LET n == Len(a.data)
        a_valid == ValidMask(ma)
        b_valid == ValidMask(mb)
        combined_mask == [i \in 1..n |-> a_valid[i] /\ b_valid[i]]
        denominator == [i \in 1..n |-> FAdd(a.data[i], b.data[i])]
        zeros == [i \in 1..n |-> Zero]
        valid == [i \in 1..n |-> combined_mask[i] /\ denominator[i] # Zero]
        assigned == [i \in 1..n |->
                        IF valid[i]
                        THEN FDiv(FSub(a.data[i], b.data[i]), denominator[i])
                        ELSE zeros[i]]
        masked == [i \in 1..n |-> IF combined_mask[i] THEN assigned[i] ELSE Zero]
    IN  [shape |-> a.shape, data |-> masked]

\* d[k1], d[k2], ...: a key absent from the dictionary raises KeyError
HasKeys(d, keys) == \A k \in keys : k \in DOMAIN d

\* calculate_ndvi that takes an absent mask for an all-valid one
calculate_ndvi_DefaultMask(bs, ms) ==
    IF ~HasKeys(bs, {"B08", "B04"})
    THEN Raise("calculate_ndvi", <<>>, "KeyError")
    ELSE LET all_valid(a) == [shape |-> a.shape,
                              data |-> [i \in 1..Len(a.data) |-> VALID]]
             m08 == IF "B08" \in DOMAIN ms THEN ms["B08"] ELSE all_valid(bs["B08"])
             m04 == IF "B04" \in DOMAIN ms THEN ms["B04"] ELSE all_valid(bs["B04"])
         IN  Return("calculate_ndvi", <<>>,
                    NormalizedDifference(bs["B08"], bs["B04"], m08, m04))

calculate_ndvi(bs, ms) ==
    IF ~HasKeys(bs, {"B08", "B04"}) \/ ~HasKeys(ms, {"B08", "B04"})
    THEN Raise("calculate_ndvi", <<>>, "KeyError")
    ELSE Return("calculate_ndvi", <<>>,
                NormalizedDifference(bs["B08"], bs["B04"], ms["B08"], ms["B04"]))

calculate_moisture_index(bs, ms) ==
    IF ~HasKeys(bs, {"B8A", "B11"}) \/ ~HasKeys(ms, {"B8A", "B11"})
    THEN Raise("calculate_moisture_index", <<>>, "KeyError")
    ELSE Return("calculate_moisture_index", <<>>,
                NormalizedDifference(bs["B8A"], bs["B11"], ms["B8A"], ms["B11"]))

calculate_ndwi(bs, ms) ==
    IF ~HasKeys(bs, {"B03", "B08"}) \/ ~HasKeys(ms, {"B03", "B08"})
    THEN Raise("calculate_ndwi", <<>>, "KeyError")
    ELSE Return("calculate_ndwi", <<>>,
                NormalizedDifference(bs["B03"], bs["B08"], ms["B03"], ms["B08"]))

calculate_ndsi(bs, ms) ==
    IF ~HasKeys(bs, {"B03", "B11"}) \/ ~HasKeys(ms, {"B03", "B11"})
    THEN Raise("calculate_ndsi", <<>>, "KeyError")
    ELSE Return("calculate_ndsi", <<>>,
                NormalizedDifference(bs["B03"], bs["B11"], ms["B03"], ms["B11"]))

\* the in-place statements of a calculator: ndvi[valid] = ... and
\* ndvi[~combined_mask] = 0 write the array np.zeros_like(a) returned; a_ref
\* is where the first band lives, line the line of the np.zeros_like call
NormalizedDifference_writes(a_ref, line, a, b, ma, mb) ==
    LET ndvi == ZerosLike(a_ref, line)
    IN  <<Assign(ndvi, NormalizedDifference(a, b, ma, mb).data)>>

calculate_ndvi_writes(bs, ms) ==
    IF ~HasKeys(bs, {"B08", "B04"}) \/ ~HasKeys(ms, {"B08", "B04"}) THEN <<>>
    ELSE NormalizedDifference_writes(<<"bands", "B08">>, 193,
             bs["B08"], bs["B04"], ms["B08"], ms["B04"])

calculate_moisture_index_writes(bs, ms) ==
    IF ~HasKeys(bs, {"B8A", "B11"}) \/ ~HasKeys(ms, {"B8A", "B11"}) THEN <<>>
    ELSE NormalizedDifference_writes(<<"bands", "B8A">>, 230,
             bs["B8A"], bs["B11"], ms["B8A"], ms["B11"])

calculate_ndwi_writes(bs, ms) ==
    IF ~HasKeys(bs, {"B03", "B08"}) \/ ~HasKeys(ms, {"B03", "B08"}) THEN <<>>
    ELSE NormalizedDifference_writes(<<"bands", "B03">>, 267,
             bs["B03"], bs["B08"], ms["B03"], ms["B08"])

calculate_ndsi_writes(bs, ms) ==
    IF ~HasKeys(bs, {"B03", "B11"}) \/ ~HasKeys(ms, {"B03", "B11"}) THEN <<>>
    ELSE NormalizedDifference_writes(<<"bands", "B03">>, 304,
             bs["B03"], bs["B11"], ms["B03"], ms["B11"])

----------------------------------------------------------------------------
(* create_rgb_composite *)

\* what the build does with a float outside the 8-bit range
CastModes == {"wrap", "saturate"}

\* x.astype(np.uint8): truncation toward zero; a value that does not fit
\* 0..255 after truncation is undefined in C: the build wraps or saturates
AsUint8(x, mode) ==
    IF IsNaN(x) THEN 0
    ELSE LET t == Trunc(x)
         IN  IF t >= 0 /\ t <= 255 THEN t
             ELSE IF mode = "wrap" THEN t % 256
             ELSE IF t < 0 THEN 0 ELSE 255

\* (x * 255).astype(np.uint8)
ScaleToUint8(x, mode) == AsUint8(FMul(x, <<255, 1>>), mode)

\* ChannelNorm that normalizes without the channel's mask
ChannelNorm_NoMask(data, m, normalize) ==
    IF normalize THEN normalize_band(data, None, DefaultClip) ELSE data

\* the array a channel is scaled from: normalize_band with the channel's own
\* mask and the default clip, or the raw band
ChannelNorm(data, m, normalize) ==
    IF normalize THEN normalize_band(data, m, DefaultClip) ELSE data

\* Blackout that leaves the computed colour in place
Blackout_Skip(pixel, valid) == pixel

\* rgb[~combined_mask] = 0, at one pixel
Blackout(pixel, valid) == IF valid THEN pixel ELSE <<0, 0, 0>>

create_rgb_composite(bs, ms, r_band, g_band, b_band, normalize, mode) ==
    LET args == <<r_band, g_band, b_band, normalize>>
    IN  IF ~HasKeys(bs, {r_band, g_band, b_band})
           \/ ~HasKeys(ms, {r_band, g_band, b_band})
        THEN Raise("create_rgb_composite", args, "KeyError")
        ELSE
        LET r_data == bs[r_band]
            g_data == bs[g_band]
            b_data == bs[b_band]
            r_mask == ms[r_band]
            g_mask == ms[g_band]
            b_mask == ms[b_band]
            r_norm == ChannelNorm(r_data, r_mask, normalize)
            g_norm == ChannelNorm(g_data, g_mask, normalize)
            b_norm == ChannelNorm(b_data, b_mask, normalize)
            n == Len(r_data.data)
            r_valid == ValidMask(r_mask)
            g_valid == ValidMask(g_mask)
            b_valid == ValidMask(b_mask)
            combined_mask == [i \in 1..n |-> r_valid[i] /\ g_valid[i] /\ b_valid[i]]
            rgb == [i \in 1..n |->
                <<ScaleToUint8(r_norm.data[i], mode),
                  ScaleToUint8(g_norm.data[i], mode),
                  ScaleToUint8(b_norm.data[i], mode)>>]
        IN  Return("create_rgb_composite", args,
                   [shape |-> <<r_data.shape[1], r_data.shape[2], 3>>,
                    data |-> [i \in 1..n |-> Blackout(rgb[i], combined_mask[i])]])

\* the in-place statements of create_rgb_composite: those of the three
\* normalize_band calls when normalize is set, then rgb[~combined_mask] = 0
\* on the array np.stack returned. With normalize unset r_norm, g_norm and
\* b_norm are the input arrays themselves; they are read, never written.
create_rgb_composite_writes(bs, ms, r_band, g_band, b_band, normalize, mode) ==
    LET channel(id) == IF normalize
                       THEN normalize_band_writes(bs[id], ms[id], DefaultClip)
                       ELSE <<>>
        rgb == Allocated(136)
    IN  IF ~HasKeys(bs, {r_band, g_band, b_band})
           \/ ~HasKeys(ms, {r_band, g_band, b_band})
        THEN <<>>
        ELSE channel(r_band) \o channel(g_band) \o channel(b_band)
             \o <<Assign(rgb,
                         create_rgb_composite(bs, ms, r_band, g_band, b_band,
                                              normalize, mode).ret.data)>>

----------------------------------------------------------------------------
(* create_index_visualization *)

\* create_index_visualization that reverses the gradient for another colormap
create_index_visualization_Dispatch(idx, colormap) ==
    LET n == Len(idx.data)
        normalized == [i \in 1..n |->
            Clip(FDiv(FAdd(idx.data[i], One), <<2, 1>>), Zero, One)]
        red == [i \in 1..n |-> ScaleToUint8(FSub(One, normalized[i]), "wrap")]
        green == [i \in 1..n |-> ScaleToUint8(normalized[i], "wrap")]
    IN  [shape |-> <<idx.shape[1], idx.shape[2], 3>>,
         data |-> [i \in 1..n |->
                      IF colormap = "RdYlGn" THEN <<red[i], green[i], 0>>
                      ELSE <<green[i], red[i], 0>>]]

create_index_visualization(idx, colormap) ==
    LET n == Len(idx.data)
        normalized == [i \in 1..n |->
            Clip(FDiv(FAdd(idx.data[i], One), <<2, 1>>), Zero, One)]
        \* the float is in 0..255 here: the cast is defined
        red == [i \in 1..n |-> ScaleToUint8(FSub(One, normalized[i]), "wrap")]
        green == [i \in 1..n |-> ScaleToUint8(normalized[i], "wrap")]
    IN  [shape |-> <<idx.shape[1], idx.shape[2], 3>>,
         data |-> [i \in 1..n |-> <<red[i], green[i], 0>>]]

\* the in-place statements of create_index_visualization: rgb[..., 0],
\* rgb[..., 1] and rgb[..., 2] are assigned on the array np.zeros returned;
\* normalized is the new array (index_data + 1) / 2, clipped into another
create_index_visualization_writes(idx, colormap) ==
    LET rgb == Allocated(339)
    IN  <<Assign(rgb, create_index_visualization(idx, colormap).data)>>

----------------------------------------------------------------------------
(* Inputs *)

\* band values, in tenths: below 0, inside and above the 0..1 range
BandTenths == {-2, 5, 12}
BandValues == {Rat(k, 10) : k \in BandTenths}

\* mask values: invalid, a value that is neither 0 nor 255, valid
MaskValues == {0, 128, VALID}

\* percentile pairs low < high, the default (2, 98) among them
PercentilePairs == {DefaultClip, <<0, 100>>, <<0, 50>>, <<50, 100>>, <<25, 75>>}

\* index values: below -1, -1, inside, 0, inside, +1, above +1
IndexTenths == {-15, -10, -6, 0, 2, 10, 17}
IndexValues == {Rat(k, 10) : k \in IndexTenths}

NoDict == [k \in {} |-> None]

\* the band pairs of the four indices: (first band, subtracted band)
IndexPairs ==
    {<<"B08", "B04">>, <<"B8A", "B11">>, <<"B03", "B08">>, <<"B03", "B11">>}

\* what one pixel of a two-band set holds: (first band value in tenths,
\* second band value in tenths, first mask, second mask)
PixelCases ==
    { <<8, 2, VALID, VALID>>,    \* the NDVI and NDSI test values
      <<7, 3, VALID, VALID>>,    \* the Moisture test values
      <<6, 4, VALID, VALID>>,    \* the NDWI test values
      <<0, 0, VALID, VALID>>,    \* a + b = 0, both zero
      <<-2, 2, VALID, VALID>>,   \* a + b = 0, opposite values
      <<12, -2, VALID, VALID>>,  \* a raw value above 1, a negative one
      <<2, 8, 0, VALID>>,        \* first mask invalid
      <<8, 12, VALID, 128>>,     \* second mask neither 0 nor 255
      <<12, 5, 128, 0>> }        \* both invalid

\* the Band Set and Mask Set holding the two bands of a pair
BandSetOf(pair, s, px) ==
    (pair[1] :> [shape |-> s, data |-> [i \in 1..Size(s) |-> Rat(px[i][1], 10)]])
    @@ (pair[2] :> [shape |-> s, data |-> [i \in 1..Size(s) |-> Rat(px[i][2], 10)]])

MaskSetOf(pair, s, px) ==
    (pair[1] :> [shape |-> s, data |-> [i \in 1..Size(s) |-> px[i][3]]])
    @@ (pair[2] :> [shape |-> s, data |-> [i \in 1..Size(s) |-> px[i][4]]])

\* colormap names: the default and two others
Colormaps == {"RdYlGn", "viridis"}

Range(f) == {f[k] : k \in DOMAIN f}

----------------------------------------------------------------------------
(* The calls *)

Inputs == <<band, mask, percentile_clip, bands, masks, index_data,
            COMPOSITE_PRESETS, root, held>>

IndexFns ==
    {"calculate_ndvi", "calculate_moisture_index", "calculate_ndwi",
     "calculate_ndsi"}

\* where the arrays a caller can pass live
BandRefs ==
    (IF band = None THEN {} ELSE {<<"band">>})
    \cup {<<"bands", id>> : id \in DOMAIN bands}

MaskRefs == {NoRef, <<"mask">>} \cup {<<"masks", id>> : id \in DOMAIN masks}

IndexRefs ==
    (IF index_data = None THEN {} ELSE {<<"index_data">>})
    \cup (IF result.fn \in IndexFns /\ result.exc = "none"
          THEN {<<"result">>} ELSE {})

\* the array at a reference
Load(ref) ==
    CASE ref = NoRef -> None
      [] ref = <<"band">> -> band
      [] ref = <<"mask">> -> mask
      [] ref = <<"index_data">> -> index_data
      [] ref = <<"result">> -> result.ret
      [] ref[1] = "bands" -> bands[ref[2]]
      [] ref[1] = "masks" -> masks[ref[2]]

\* the caller's arrays once the writes of a call have run
Commit(writes) ==
    /\ band' = Stored(<<"band">>, band, writes)
    /\ mask' = Stored(<<"mask">>, mask, writes)
    /\ index_data' = Stored(<<"index_data">>, index_data, writes)
    /\ bands' = [id \in DOMAIN bands |->
                    Stored(<<"bands", id>>, bands[id], writes)]
    /\ masks' = [id \in DOMAIN masks |->
                    Stored(<<"masks", id>>, masks[id], writes)]
    /\ UNCHANGED <<percentile_clip, COMPOSITE_PRESETS, root, held>>

\* the caller's flow: it loads the inputs, passes them through one transform,
\* and may pass an index array on to the visualizer
Loaded == result = NoResult

NormalizeBand ==
    /\ Loaded
    /\ \E b_ref \in BandRefs, m_ref \in MaskRefs :
          LET b == Load(b_ref)
              m == Load(m_ref)
          IN  /\ result' = Return("normalize_band", <<b, m, percentile_clip>>,
                                  normalize_band(b, m, percentile_clip))
              /\ Commit(normalize_band_writes(b, m, percentile_clip))

CalculateNdvi ==
    /\ Loaded
    /\ result' = calculate_ndvi(bands, masks)
    /\ Commit(calculate_ndvi_writes(bands, masks))

CalculateMoistureIndex ==
    /\ Loaded
    /\ result' = calculate_moisture_index(bands, masks)
    /\ Commit(calculate_moisture_index_writes(bands, masks))

CalculateNdwi ==
    /\ Loaded
    /\ result' = calculate_ndwi(bands, masks)
    /\ Commit(calculate_ndwi_writes(bands, masks))

CalculateNdsi ==
    /\ Loaded
    /\ result' = calculate_ndsi(bands, masks)
    /\ Commit(calculate_ndsi_writes(bands, masks))

CreateRgbComposite ==
    /\ Loaded
    /\ \E r_band, g_band, b_band \in DOMAIN bands \cup DOMAIN masks,
          normalize \in BOOLEAN, mode \in CastModes :
          /\ result' = create_rgb_composite(bands, masks, r_band, g_band,
                                            b_band, normalize, mode)
          /\ Commit(create_rgb_composite_writes(bands, masks, r_band, g_band,
                                                b_band, normalize, mode))

CreateIndexVisualization ==
    /\ result.fn # "create_index_visualization"
    /\ \E idx_ref \in IndexRefs, colormap \in Colormaps :
          LET idx == Load(idx_ref)
          IN  /\ result' = Return("create_index_visualization",
                                  <<idx, colormap>>,
                                  create_index_visualization(idx, colormap))
              /\ Commit(create_index_visualization_writes(idx, colormap))

----------------------------------------------------------------------------
(* Specification of the transforms over a Band Set and its Mask Set *)

Init ==
    /\ \E pair \in IndexPairs, s \in Shapes(MaxPixels) :
          \E px \in [1..Size(s) -> PixelCases] :
             /\ bands = BandSetOf(pair, s, px)
             /\ masks = MaskSetOf(pair, s, px)
    /\ band = None
    /\ mask = None
    /\ percentile_clip = DefaultClip
    /\ index_data = None
    /\ COMPOSITE_PRESETS = NoDict
    /\ root = {}
    /\ held = <<>>
    /\ result = NoResult

Next ==
    \/ NormalizeBand
    \/ CalculateNdvi
    \/ CalculateMoistureIndex
    \/ CalculateNdwi
    \/ CalculateNdsi
    \/ CreateRgbComposite
    \/ CreateIndexVisualization

Spec == Init /\ [][Next]_vars

----------------------------------------------------------------------------
(* Specification of any sequence of transform calls *)

\* the caller is done with the output of a call and goes on to the next
Reload ==
    /\ result # NoResult
    /\ result' = NoResult
    /\ UNCHANGED Inputs

\* the pixels of the sets: valid, a + b = 0, first mask invalid, second mask
\* neither 0 nor 255
FrameCases ==
    {<<8, 2, VALID, VALID>>, <<-2, 2, VALID, VALID>>, <<2, 8, 0, VALID>>,
     <<8, 12, VALID, 128>>}

\* a Band Set and its Mask Set, a single band and mask held apart from them,
\* and an index array
InitFrame ==
    /\ \E pair \in IndexPairs, s \in Shapes(MaxPixels) :
          \E px \in [1..Size(s) -> FrameCases] :
             /\ bands = BandSetOf(pair, s, px)
             /\ masks = MaskSetOf(pair, s, px)
             /\ band = BandSetOf(pair, s, px)[pair[2]]
             /\ mask = MaskSetOf(pair, s, px)[pair[1]]
             /\ index_data =
                   [shape |-> s,
                    data |-> [i \in 1..Size(s) |->
                                 Rat(px[i][1] - px[i][2], 10)]]
    /\ percentile_clip = DefaultClip
    /\ COMPOSITE_PRESETS = NoDict
    /\ root = {}
    /\ held = <<>>
    /\ result = NoResult

NextFrame ==
    \/ Next
    \/ Reload

SpecFrame == InitFrame /\ [][NextFrame]_vars

----------------------------------------------------------------------------
(* Specification of normalize_band calls *)

InitNorm ==
    /\ \E s \in Shapes(MaxNormPixels) :
          /\ band \in Arrays(s, BandValues)
          /\ mask \in Arrays(s, MaskValues)
    /\ percentile_clip \in PercentilePairs
    /\ bands = NoDict
    /\ masks = NoDict
    /\ index_data = None
    /\ COMPOSITE_PRESETS = NoDict
    /\ root = {}
    /\ held = <<>>
    /\ result = NoResult

NextNorm == NormalizeBand

SpecNorm == InitNorm /\ [][NextNorm]_vars

----------------------------------------------------------------------------
(* Specification of create_index_visualization calls *)

InitVis ==
    /\ \E s \in Shapes(MaxPixels) : index_data \in Arrays(s, IndexValues)
    /\ band = None
    /\ mask = None
    /\ percentile_clip = DefaultClip
    /\ bands = NoDict
    /\ masks = NoDict
    /\ COMPOSITE_PRESETS = NoDict
    /\ root = {}
    /\ held = <<>>
    /\ result = NoResult

NextVis == CreateIndexVisualization

SpecVis == InitVis /\ [][NextVis]_vars

----------------------------------------------------------------------------
(* Specification of the transforms over Band Sets and Mask Sets that lack  *)
(* band identifiers                                                        *)

\* the pixels of the sets with missing identifiers
LookupCases == {<<8, 2, VALID, VALID>>, <<2, 8, 0, VALID>>}

\* the dictionary d without the keys outside keep
Restrict(d, keep) == [k \in DOMAIN d \cap keep |-> d[k]]

InitLookup ==
    /\ \E pair \in IndexPairs, s \in Shapes(MaxPixels) :
          \E px \in [1..Size(s) -> LookupCases],
             bk \in SUBSET {pair[1], pair[2]}, mk \in SUBSET {pair[1], pair[2]} :
             /\ bands = Restrict(BandSetOf(pair, s, px), bk)
             /\ masks = Restrict(MaskSetOf(pair, s, px), mk)
    /\ band = None
    /\ mask = None
    /\ percentile_clip = DefaultClip
    /\ index_data = None
    /\ COMPOSITE_PRESETS = NoDict
    /\ root = {}
    /\ held = <<>>
    /\ result = NoResult

SpecLookup == InitLookup /\ [][Next]_vars

----------------------------------------------------------------------------
(* Strings, as sequences of characters *)

MARKER ==
    << "S", "e", "n", "t", "i", "n", "e", "l", "-", "2", "_", "L", "2",
       "A" >>

\* the separator discover_dates splits the name at
SEPARATOR == << "-", "0", "0", "_", "0", "0" >>

StartsWith(s, prefix) ==
    Len(prefix) <= Len(s) /\ SubSeq(s, 1, Len(prefix)) = prefix

\* sub in s
Contains(s, sub) ==
    \E i \in 0..(Len(s) - Len(sub)) : SubSeq(s, i + 1, i + Len(sub)) = sub

\* s.split(sep)[0]: the text before the first sep, or all of s
SplitFirst(s, sep) ==
    IF Contains(s, sep)
    THEN LET i == CHOOSE k \in 0..(Len(s) - Len(sep)) :
                     /\ SubSeq(s, k + 1, k + Len(sep)) = sep
                     /\ \A j \in 0..(k - 1) : SubSeq(s, j + 1, j + Len(sep)) # sep
         IN  SubSeq(s, 1, i)
    ELSE s

Digits == << "0", "1", "2", "3", "4", "5", "6", "7", "8", "9" >>

IsDigit(c) == \E i \in 1..10 : Digits[i] = c

DigitValue(c) == (CHOOSE i \in 1..10 : Digits[i] = c) - 1

\* the number a sequence of digits denotes
RECURSIVE Number(_)
Number(ds) ==
    IF ds = <<>> THEN 0
    ELSE 10 * Number(SubSeq(ds, 1, Len(ds) - 1)) + DigitValue(ds[Len(ds)])

----------------------------------------------------------------------------
(* Dates: <<year, month, day>> *)

NoDate == <<0, 0, 0>>

IsLeap(y) == (y % 4 = 0 /\ y % 100 # 0) \/ y % 400 = 0

DaysInMonth(y, m) ==
    IF m = 2 THEN (IF IsLeap(y) THEN 29 ELSE 28)
    ELSE IF m \in {4, 6, 9, 11} THEN 30 ELSE 31

\* %m: 1[0-2] | 0[1-9] | [1-9]
IsMonthText(t) ==
    \/ Len(t) = 2 /\ t[1] = "1" /\ t[2] \in {"0", "1", "2"}
    \/ Len(t) = 2 /\ t[1] = "0" /\ IsDigit(t[2]) /\ t[2] # "0"
    \/ Len(t) = 1 /\ IsDigit(t[1]) /\ t[1] # "0"

\* %d: 3[0-1] | [1-2]\d | 0[1-9] | [1-9] | " "[1-9]
IsDayText(t) ==
    \/ Len(t) = 2 /\ t[1] = "3" /\ t[2] \in {"0", "1"}
    \/ Len(t) = 2 /\ t[1] \in {"1", "2"} /\ IsDigit(t[2])
    \/ Len(t) = 2 /\ t[1] \in {"0", " "} /\ IsDigit(t[2]) /\ t[2] # "0"
    \/ Len(t) = 1 /\ IsDigit(t[1]) /\ t[1] # "0"

DayNumber(t) == IF t[1] = " " THEN Number(Tail(t)) ELSE Number(t)

\* the (month length, day length) under which s reads as YYYY-m-d, all of s
\* being consumed
DateLayouts(s) ==
    {l \in {1, 2} \X {1, 2} :
        /\ Len(s) = 6 + l[1] + l[2]
        /\ \A i \in 1..4 : IsDigit(s[i])
        /\ s[5] = "-"
        /\ IsMonthText(SubSeq(s, 6, 5 + l[1]))
        /\ s[6 + l[1]] = "-"
        /\ IsDayText(SubSeq(s, 7 + l[1], 6 + l[1] + l[2]))}

\* datetime.strptime(s, "%Y-%m-%d"); NoDate stands for ValueError
strptime(s) ==
    IF DateLayouts(s) = {} THEN NoDate
    ELSE LET l == CHOOSE x \in DateLayouts(s) : TRUE
             y == Number(SubSeq(s, 1, 4))
             m == Number(SubSeq(s, 6, 5 + l[1]))
             d == DayNumber(SubSeq(s, 7 + l[1], 6 + l[1] + l[2]))
         IN  IF y >= 1 /\ d <= DaysInMonth(y, m) THEN <<y, m, d>> ELSE NoDate

\* n written with at least w digits, zero-padded
RECURSIVE Padded(_, _)
Padded(n, w) ==
    IF w <= 1 /\ n < 10 THEN <<Digits[n + 1]>>
    ELSE Padded(n \div 10, w - 1) \o <<Digits[(n % 10) + 1]>>

\* date.strftime("%Y-%m-%d"), for the years 1000..9999
strftime(date) ==
    Padded(date[1], 4) \o <<"-">> \o Padded(date[2], 2) \o <<"-">>
    \o Padded(date[3], 2)

\* the order of datetime values
DateLt(a, b) ==
    \/ a[1] < b[1]
    \/ a[1] = b[1] /\ a[2] < b[2]
    \/ a[1] = b[1] /\ a[2] = b[2] /\ a[3] < b[3]

----------------------------------------------------------------------------
(* discover_dates, get_date_directory *)

\* the dates of the product directories among the entries, in the order
\* data_dir.iterdir() yields them, up to the first name that does not parse:
\* [dates, failed]
RECURSIVE ScanDates(_)
ScanDates(entries) ==
    IF entries = <<>> THEN [dates |-> <<>>, failed |-> FALSE]
    ELSE LET subdir == Head(entries)
         IN  IF subdir.is_dir /\ Contains(subdir.name, MARKER)
             THEN LET date_str == SplitFirst(subdir.name, SEPARATOR)
                      date == strptime(date_str)
                      rest == ScanDates(Tail(entries))
                  IN  IF date = NoDate
                      THEN [dates |-> <<>>, failed |-> TRUE]
                      ELSE [dates |-> <<date>> \o rest.dates,
                            failed |-> rest.failed]
             ELSE ScanDates(Tail(entries))

discover_dates(entries) ==
    LET scan == ScanDates(entries)
    IN  IF scan.failed
        THEN Raise("discover_dates", <<>>, "ValueError")
        ELSE Return("discover_dates", <<>>, SortSeq(scan.dates, DateLt))

\* the first directory, in iteration order, whose name starts with date_str
RECURSIVE FirstMatch(_, _)
FirstMatch(entries, date_str) ==
    IF entries = <<>> THEN <<>>
    ELSE LET subdir == Head(entries)
         IN  IF subdir.is_dir /\ StartsWith(subdir.name, date_str)
             THEN <<subdir>>
             ELSE FirstMatch(Tail(entries), date_str)

get_date_directory(entries, date) ==
    LET date_str == strftime(date)
        found == FirstMatch(entries, date_str)
    IN  IF found # <<>>
        THEN Return("get_date_directory", <<date>>, found[1])
        ELSE Raise("get_date_directory", <<date>>, "FileNotFoundError")

----------------------------------------------------------------------------
(* Directory contents *)

\* "2024-01-05-00_00_2024-01-05-23_59_Sentinel-2_L2A": a product directory in the documented layout
NameJan5 ==
    << "2", "0", "2", "4", "-", "0", "1", "-", "0", "5", "-", "0", "0",
       "_", "0", "0", "_", "2", "0", "2", "4", "-", "0", "1", "-", "0",
       "5", "-", "2", "3", "_", "5", "9", "_", "S", "e", "n", "t", "i",
       "n", "e", "l", "-", "2", "_", "L", "2", "A" >>

\* "2024-01-05-00_00_2024-01-06-23_59_Sentinel-2_L2A": a second product directory that starts on the same date
NameJan5Long ==
    << "2", "0", "2", "4", "-", "0", "1", "-", "0", "5", "-", "0", "0",
       "_", "0", "0", "_", "2", "0", "2", "4", "-", "0", "1", "-", "0",
       "6", "-", "2", "3", "_", "5", "9", "_", "S", "e", "n", "t", "i",
       "n", "e", "l", "-", "2", "_", "L", "2", "A" >>

\* "2023-03-10-00_00_2023-03-10-23_59_Sentinel-2_L2A": a product directory of an earlier date
NameMar10 ==
    << "2", "0", "2", "3", "-", "0", "3", "-", "1", "0", "-", "0", "0",
       "_", "0", "0", "_", "2", "0", "2", "3", "-", "0", "3", "-", "1",
       "0", "-", "2", "3", "_", "5", "9", "_", "S", "e", "n", "t", "i",
       "n", "e", "l", "-", "2", "_", "L", "2", "A" >>

\* "2024-1-5-00_00_2024-1-5-23_59_Sentinel-2_L2A": a product directory whose month and day are not zero-padded
NameUnpadded ==
    << "2", "0", "2", "4", "-", "1", "-", "5", "-", "0", "0", "_", "0",
       "0", "_", "2", "0", "2", "4", "-", "1", "-", "5", "-", "2", "3",
       "_", "5", "9", "_", "S", "e", "n", "t", "i", "n", "e", "l", "-",
       "2", "_", "L", "2", "A" >>

\* "2024-01-05-10_30_2024-01-05-23_59_Sentinel-2_L2A": a product directory whose start time is not 00_00
NameMorning ==
    << "2", "0", "2", "4", "-", "0", "1", "-", "0", "5", "-", "1", "0",
       "_", "3", "0", "_", "2", "0", "2", "4", "-", "0", "1", "-", "0",
       "5", "-", "2", "3", "_", "5", "9", "_", "S", "e", "n", "t", "i",
       "n", "e", "l", "-", "2", "_", "L", "2", "A" >>

\* "notes_Sentinel-2_L2A": a name with the marker and no date
NameNoDate ==
    << "n", "o", "t", "e", "s", "_", "S", "e", "n", "t", "i", "n", "e",
       "l", "-", "2", "_", "L", "2", "A" >>

\* "2024-01-05-00_00_backup": a name that starts with a date and lacks the marker
NameBackup ==
    << "2", "0", "2", "4", "-", "0", "1", "-", "0", "5", "-", "0", "0",
       "_", "0", "0", "_", "b", "a", "c", "k", "u", "p" >>

\* "readme.txt": a plain name
NameReadme ==
    << "r", "e", "a", "d", "m", "e", ".", "t", "x", "t" >>

\* "2022-07-01-00_00_2022-07-01-23_59_Sentinel-2_L2A.zip": the name of an archive file of a product
NameArchive ==
    << "2", "0", "2", "2", "-", "0", "7", "-", "0", "1", "-", "0", "0",
       "_", "0", "0", "_", "2", "0", "2", "2", "-", "0", "7", "-", "0",
       "1", "-", "2", "3", "_", "5", "9", "_", "S", "e", "n", "t", "i",
       "n", "e", "l", "-", "2", "_", "L", "2", "A", ".", "z", "i", "p" >>


Dir(name) == [name |-> name, is_dir |-> TRUE]
File(name) == [name |-> name, is_dir |-> FALSE]

\* the entries a root directory is made of
Entries ==
    {Dir(NameJan5), Dir(NameJan5Long), Dir(NameMar10), Dir(NameUnpadded),
     Dir(NameMorning), Dir(NameNoDate), Dir(NameBackup), File(NameReadme),
     File(NameArchive)}

\* the orders in which iterdir() can yield the entries
Orders(S) ==
    {f \in [1..Cardinality(S) -> S] :
        \A i, j \in 1..Cardinality(S) : i # j => f[i] # f[j]}

\* dates asked for that no call returned
ProbeDates == {<<2024, 1, 5>>, <<2023, 12, 31>>}

HeldDates ==
    IF result.fn = "discover_dates" /\ result.exc = "none"
    THEN Range(result.ret) ELSE {}

DiscoverDates ==
    /\ \E order \in Orders(root) : result' = discover_dates(order)
    /\ UNCHANGED Inputs

GetDateDirectory ==
    /\ \E order \in Orders(root), date \in HeldDates \cup ProbeDates :
          result' = get_date_directory(order, date)
    /\ UNCHANGED Inputs

InitData ==
    /\ root \in {S \in SUBSET Entries : Cardinality(S) <= MaxEntries}
    /\ band = None
    /\ mask = None
    /\ percentile_clip = DefaultClip
    /\ bands = NoDict
    /\ masks = NoDict
    /\ index_data = None
    /\ COMPOSITE_PRESETS = NoDict
    /\ held = <<>>
    /\ result = NoResult

NextData == DiscoverDates \/ GetDateDirectory

SpecData == InitData /\ [][NextData]_vars

----------------------------------------------------------------------------
(* The preset registry *)

\* the band identifiers (SENTINEL2_BANDS)
BandIds ==
    {"B01", "B02", "B03", "B04", "B05", "B06", "B07", "B08", "B8A", "B09",
     "B11", "B12"}

Preset(r, g, b) == [r |-> r, g |-> g, b |-> b]

\* COMPOSITE_PRESETS as the module defines it
InitialPresets ==
    ("True Color" :> Preset("B04", "B03", "B02"))
    @@ ("False Color" :> Preset("B08", "B04", "B03"))
    @@ ("Highlight Optimized Natural Color" :> Preset("B04", "B03", "B02"))
    @@ ("False Color Urban" :> Preset("B12", "B11", "B04"))
    @@ ("SWIR" :> Preset("B12", "B8A", "B04"))

\* the names a caller asks for: the registered ones and three others
RequestedNames ==
    DOMAIN InitialPresets \cup {"Invalid Preset", "true color", "NDVI"}

\* get_composite_preset that falls back to True Color for an unknown name
get_composite_preset_Default(registry, name) ==
    IF name \in DOMAIN registry
    THEN Return("get_composite_preset", <<name>>, [ref |-> name])
    ELSE Return("get_composite_preset", <<name>>, [ref |-> "True Color"])

\* COMPOSITE_PRESETS[name]: the dictionary held by the registry itself, not a
\* copy, so the value returned is a reference to the registry's entry
get_composite_preset(registry, name) ==
    IF name \in DOMAIN registry
    THEN Return("get_composite_preset", <<name>>, [ref |-> name])
    ELSE Raise("get_composite_preset", <<name>>, "KeyError")

\* the record a reference denotes
Deref(reference) == COMPOSITE_PRESETS[reference.ref]

GetCompositePreset ==
    /\ \E name \in RequestedNames :
          /\ result' = get_composite_preset(COMPOSITE_PRESETS, name)
          /\ held' = IF result'.exc = "none" /\ Len(held) < MaxHeld
                     THEN Append(held, result'.ret)
                     ELSE held
    /\ UNCHANGED <<band, mask, percentile_clip, bands, masks, index_data,
                   COMPOSITE_PRESETS, root>>

InitPreset ==
    /\ COMPOSITE_PRESETS = InitialPresets
    /\ band = None
    /\ mask = None
    /\ percentile_clip = DefaultClip
    /\ bands = NoDict
    /\ masks = NoDict
    /\ index_data = None
    /\ root = {}
    /\ held = <<>>
    /\ result = NoResult

NextPreset == GetCompositePreset

SpecPreset == InitPreset /\ [][NextPreset]_vars

\* the band identifiers a caller writes into a record it received
CallerBands == {"B08"}

\* preset[key] = id on a record received from get_composite_preset: the
\* record is the registry's own dictionary, so the registry's entry changes
CallerModifiesPreset ==
    /\ \E k \in 1..Len(held), key \in {"r", "g", "b"}, id \in CallerBands :
          COMPOSITE_PRESETS' =
             [COMPOSITE_PRESETS EXCEPT ![held[k].ref][key] = id]
    /\ UNCHANGED <<band, mask, percentile_clip, bands, masks, index_data,
                   root, held, result>>

NextPresetCaller ==
    \/ GetCompositePreset
    \/ CallerModifiesPreset

SpecPresetCaller == InitPreset /\ [][NextPresetCaller]_vars

----------------------------------------------------------------------------
(* Claims *)

AllZero(a) == \A i \in 1..Len(a.data) : a.data[i] = Zero
AllValid(m) == \A i \in 1..Len(m.data) : m.data[i] = VALID
IsConst(a, v) == \A i \in 1..Len(a.data) : a.data[i] = v

Returned(fn) == result.fn = fn /\ result.exc = "none"

\* the two bands of an index, as the claims name them
IndexBands(fn) ==
    CASE fn = "calculate_ndvi" -> <<"B08", "B04">>
      [] fn = "calculate_moisture_index" -> <<"B8A", "B11">>
      [] fn = "calculate_ndwi" -> <<"B03", "B08">>
      [] fn = "calculate_ndsi" -> <<"B03", "B11">>

\* C1: a masked-invalid pixel is exactly 0 in every computed output:
\* normalize_band gives 0 where its mask is not 255, each index calculator
\* gives 0 where either of its two masks is not 255, create_rgb_composite
\* gives (0,0,0) where any of the three channel masks is not 255, with
\* normalize true or false and whatever the band values there.
C1_MaskedPixelsAreZero ==
    /\ (Returned("normalize_band") /\ result.args[2] # None) =>
          \A i \in 1..Len(result.ret.data) :
             result.args[2].data[i] # 255 => result.ret.data[i] = Zero
    /\ \A fn \in IndexFns : Returned(fn) =>
          \A i \in 1..Len(result.ret.data) :
             (\/ masks[IndexBands(fn)[1]].data[i] # 255
              \/ masks[IndexBands(fn)[2]].data[i] # 255)
             => result.ret.data[i] = Zero
    /\ Returned("create_rgb_composite") =>
          \A i \in 1..Len(result.ret.data) :
             (\E c \in 1..3 : masks[result.args[c]].data[i] # 255)
             => result.ret.data[i] = <<0, 0, 0>>

\* C1 witness: a composite built without normalization in which a pixel is
\* invalid in one channel mask while its raw values are nonzero in all three
C1_Witness ==
    /\ Returned("create_rgb_composite")
    /\ result.args[4] = FALSE
    /\ \E i \in 1..Len(result.ret.data) :
          /\ \E c \in 1..3 : masks[result.args[c]].data[i] # 255
          /\ \E c \in 1..3 : masks[result.args[c]].data[i] = 255
          /\ \A c \in 1..3 : bands[result.args[c]].data[i] # Zero
          /\ result.ret.data[i] = <<0, 0, 0>>

\* C2: for every band, every mask or no mask and every percentile pair
\* 0 <= low < high <= 100, every value of the normalize_band output lies in
\* [0,1] and the output has the shape of the band.
C2_NormalizedInUnitRange ==
    (result.fn = "normalize_band") =>
        /\ result.exc = "none"
        /\ result.ret.shape = result.args[1].shape
        /\ Len(result.ret.data) = Len(result.args[1].data)
        /\ \A i \in 1..Len(result.ret.data) :
              FLe(Zero, result.ret.data[i]) /\ FLe(result.ret.data[i], One)

\* C2 witness: a mask with an invalid pixel whose band value lies above the
\* clip bounds, which come from the valid pixels alone, and a valid pixel
\* that is normalized to 1
C2_Witness ==
    /\ Returned("normalize_band")
    /\ result.args[2] # None
    /\ LET p == ClipBounds(result.args[1], result.args[2], result.args[3])
       IN  /\ FLt(p[1], p[2])
           /\ \E i \in 1..Len(result.ret.data) :
                 /\ result.args[2].data[i] # 255
                 /\ FLt(p[2], result.args[1].data[i])
           /\ \E j \in 1..Len(result.ret.data) :
                 result.args[2].data[j] = 255 /\ result.ret.data[j] = One

\* C5: normalize_band returns a defined result on degenerate data: when the
\* low and high percentile values over the valid pixels are equal the output
\* is 0 everywhere; when the mask has no valid pixel the clip bounds are
\* [0.0, 1.0] and the output is 0 everywhere; no value is the result of a
\* division by zero and no error is raised.
C5_DegenerateIsZero ==
    (result.fn = "normalize_band") =>
        LET b == result.args[1]
            m == result.args[2]
            pc == result.args[3]
            valid_pixels == ValidPixels(b, m)
        IN  /\ result.exc = "none"
            /\ \A i \in 1..Len(result.ret.data) : ~IsNaN(result.ret.data[i])
            /\ (/\ Len(valid_pixels) > 0
                /\ Percentile(valid_pixels, pc[1]) = Percentile(valid_pixels, pc[2]))
               => AllZero(result.ret)
            /\ Len(valid_pixels) = 0 =>
                  /\ ClipBounds(b, m, pc) = <<Zero, One>>
                  /\ AllZero(result.ret)

\* C5 witness: a constant nonzero band of several pixels with an all-valid
\* mask, normalized to zeros
C5_Witness ==
    /\ Returned("normalize_band")
    /\ Len(result.args[1].data) >= 2
    /\ result.args[2] # None
    /\ AllValid(result.args[2])
    /\ IsConst(result.args[1], Rat(5, 10))
    /\ AllZero(result.ret)

\* the value the claims give for one pixel of an index
ExpectedIndex(a, b, ma, mb) ==
    IF ma # 255 \/ mb # 255 \/ FAdd(a, b) = Zero
    THEN Zero
    ELSE FDiv(FSub(a, b), FAdd(a, b))

\* all-valid constant inputs (a, b) give the constant v
ConstantCase(fn, a, b, v) ==
    LET ids == IndexBands(fn)
    IN  (/\ Returned(fn)
         /\ IsConst(bands[ids[1]], a) /\ IsConst(bands[ids[2]], b)
         /\ AllValid(masks[ids[1]]) /\ AllValid(masks[ids[2]]))
        => IsConst(result.ret, v)

\* C3: for each index and every pixel, with (a,b) = (B08,B04) for NDVI,
\* (B8A,B11) for Moisture, (B03,B08) for NDWI and (B03,B11) for NDSI, the
\* result is 0 when either mask is not 255 or a+b is exactly 0 and is
\* (a-b)/(a+b) otherwise; the output has the shape of the inputs; all-valid
\* constant inputs (0.8,0.2), (0.7,0.3), (0.6,0.4), (0.8,0.2) give 0.6, 0.4,
\* 0.2, 0.6 everywhere.
C3_IndexFormula ==
    /\ \A fn \in IndexFns :
          (result.fn = fn /\ HasKeys(bands, {IndexBands(fn)[1], IndexBands(fn)[2]})
                          /\ HasKeys(masks, {IndexBands(fn)[1], IndexBands(fn)[2]})) =>
             LET ids == IndexBands(fn)
             IN  /\ result.exc = "none"
                 /\ result.ret.shape = bands[ids[1]].shape
                 /\ Len(result.ret.data) = Len(bands[ids[1]].data)
                 /\ \A i \in 1..Len(result.ret.data) :
                       result.ret.data[i] =
                          ExpectedIndex(bands[ids[1]].data[i], bands[ids[2]].data[i],
                                        masks[ids[1]].data[i], masks[ids[2]].data[i])
    /\ ConstantCase("calculate_ndvi", <<4, 5>>, <<1, 5>>, <<3, 5>>)
    /\ ConstantCase("calculate_moisture_index", <<7, 10>>, <<3, 10>>, <<2, 5>>)
    /\ ConstantCase("calculate_ndwi", <<3, 5>>, <<2, 5>>, <<1, 5>>)
    /\ ConstantCase("calculate_ndsi", <<4, 5>>, <<1, 5>>, <<3, 5>>)

\* C3 witness: NDWI over two pixels, one with the constant test values giving
\* 0.2 and one whose bands sum to exactly 0 without both being 0, giving 0
C3_Witness ==
    /\ Returned("calculate_ndwi")
    /\ \E i, j \in 1..Len(result.ret.data) :
          /\ bands["B03"].data[i] = <<3, 5>> /\ bands["B08"].data[i] = <<2, 5>>
          /\ result.ret.data[i] = <<1, 5>>
          /\ bands["B03"].data[j] # Zero
          /\ FAdd(bands["B03"].data[j], bands["B08"].data[j]) = Zero
          /\ masks["B03"].data[j] = 255 /\ masks["B08"].data[j] = 255
          /\ result.ret.data[j] = Zero

\* the value a channel is scaled from, at one pixel
ChannelValue(id, normalize, i) ==
    IF normalize
    THEN normalize_band(bands[id], masks[id], <<2, 98>>).data[i]
    ELSE bands[id].data[i]

AllChannelsValid(i) == \A c \in 1..3 : masks[result.args[c]].data[i] = 255

RgbShapeAndRange ==
    /\ result.ret.shape = <<bands[result.args[1]].shape[1],
                            bands[result.args[1]].shape[2], 3>>
    /\ Len(result.ret.data) = Len(bands[result.args[1]].data)
    /\ \A i \in 1..Len(result.ret.data) :
          Len(result.ret.data[i]) = 3
          /\ \A c \in 1..3 : result.ret.data[i][c] \in 0..255

\* C4 as stated: create_rgb_composite returns an (H,W,3) image of values in
\* 0..255 and at every pixel valid in all three masks the output is
\* (trunc(255*r'), trunc(255*g'), trunc(255*b')), x' being normalize_band of
\* the channel with its own mask and the clip (2,98) when normalize is true
\* and the raw band value when it is false.
C4_AsStated ==
    Returned("create_rgb_composite") =>
        /\ RgbShapeAndRange
        /\ \A i \in 1..Len(result.ret.data) : AllChannelsValid(i) =>
              \A c \in 1..3 :
                 result.ret.data[i][c] =
                    Trunc(FMul(<<255, 1>>,
                               ChannelValue(result.args[c], result.args[4], i)))

\* C4 amended: as C4, but with normalize false the channel is
\* trunc(255 * raw) only where that value lies in 0..255; elsewhere the
\* channel is some value in 0..255.
C4_TruncatedWhereItFits ==
    Returned("create_rgb_composite") =>
        /\ RgbShapeAndRange
        /\ \A i \in 1..Len(result.ret.data) : AllChannelsValid(i) =>
              \A c \in 1..3 :
                 LET t == Trunc(FMul(<<255, 1>>,
                                ChannelValue(result.args[c], result.args[4], i)))
                 IN  (result.args[4] \/ t \in 0..255) => result.ret.data[i][c] = t

\* C4 witness: a normalized composite of two different bands in which a pixel
\* valid in all channels is white in one channel while another pixel is
\* invalid in one channel only
C4_Witness ==
    /\ Returned("create_rgb_composite")
    /\ result.args[4] = TRUE
    /\ result.args[1] # result.args[2]
    /\ \E i, j \in 1..Len(result.ret.data) :
          /\ AllChannelsValid(i)
          /\ result.ret.data[i][1] = 255
          /\ result.ret.data[i][2] = 0
          /\ masks[result.args[1]].data[j] = 255
          /\ masks[result.args[2]].data[j] # 255

\* the pixel the claim gives for an index value v
ExpectedColour(v) ==
    LET n == Clip(FDiv(FAdd(v, One), <<2, 1>>), Zero, One)
    IN  <<Trunc(FMul(FSub(One, n), <<255, 1>>)), Trunc(FMul(n, <<255, 1>>)), 0>>

\* C8: create_index_visualization maps every index value v to
\* (trunc((1-n)*255), trunc(n*255), 0) with n = clip((v+1)/2, 0, 1): v <= -1
\* gives (255,0,0), v >= 1 gives (0,255,0), v = 0 gives (127,127,0), blue is
\* always 0, the shape is the input shape plus a dimension of 3, and the
\* colormap argument does not change the result.
C8_Gradient ==
    (result.fn = "create_index_visualization") =>
        LET idx == result.args[1]
        IN  /\ result.exc = "none"
            /\ result.ret.shape = <<idx.shape[1], idx.shape[2], 3>>
            /\ Len(result.ret.data) = Len(idx.data)
            /\ \A i \in 1..Len(idx.data) :
                  LET v == idx.data[i]
                      px == result.ret.data[i]
                  IN  /\ px = ExpectedColour(v)
                      /\ px[3] = 0
                      /\ FLe(v, <<-1, 1>>) => px = <<255, 0, 0>>
                      /\ FLe(One, v) => px = <<0, 255, 0>>
                      /\ v = Zero => px = <<127, 127, 0>>

\* C8 witness: a visualization under another colormap than the default of an
\* index holding a value below -1 and the value 0
C8_Witness ==
    /\ Returned("create_index_visualization")
    /\ result.args[2] # "RdYlGn"
    /\ \E i, j \in 1..Len(result.ret.data) :
          /\ FLt(result.args[1].data[i], <<-1, 1>>)
          /\ result.ret.data[i] = <<255, 0, 0>>
          /\ result.args[1].data[j] = Zero
          /\ result.ret.data[j] = <<127, 127, 0>>

MissingFrom(d, ids) == \E k \in ids : k \notin DOMAIN d

\* C6: each index calculator fails with MissingBandError (KeyError in the
\* source), returning no array, whenever one of its two band identifiers is
\* absent from the Band Set or from the Mask Set; create_rgb_composite fails
\* likewise whenever any of r, g, b is absent from the Band Set or from the
\* Mask Set, an identifier present in the Band Set only included.
C6_MissingBandRaises ==
    /\ \A fn \in IndexFns :
          (/\ result.fn = fn
           /\ \/ MissingFrom(bands, {IndexBands(fn)[1], IndexBands(fn)[2]})
              \/ MissingFrom(masks, {IndexBands(fn)[1], IndexBands(fn)[2]}))
          => result.exc = "KeyError" /\ result.ret = <<>>
    /\ (/\ result.fn = "create_rgb_composite"
        /\ \/ MissingFrom(bands, {result.args[1], result.args[2], result.args[3]})
           \/ MissingFrom(masks, {result.args[1], result.args[2], result.args[3]}))
       => result.exc = "KeyError" /\ result.ret = <<>>

\* C6 witness: NDVI called with both bands in the Band Set and one of them
\* absent from the Mask Set
C6_Witness ==
    /\ result.fn = "calculate_ndvi"
    /\ DOMAIN bands = {"B08", "B04"}
    /\ DOMAIN masks = {"B08"}
    /\ result.exc = "KeyError"

\* C7: the registry holds exactly 5 names (True Color, False Color,
\* Highlight Optimized Natural Color, False Color Urban, SWIR), each mapped
\* to a record with exactly the keys r, g, b whose values are band
\* identifiers of the 12-band vocabulary; get_composite_preset(name) returns
\* the registered record for each of these names (True Color -> B04, B03,
\* B02) and fails with UnknownPresetError (KeyError in the source) for
\* every other name.
C7_PresetLookup ==
    LET names == {"True Color", "False Color",
                  "Highlight Optimized Natural Color", "False Color Urban",
                  "SWIR"}
    IN  /\ DOMAIN COMPOSITE_PRESETS = names
        /\ Cardinality(DOMAIN COMPOSITE_PRESETS) = 5
        /\ Cardinality(BandIds) = 12
        /\ \A n \in names :
              /\ DOMAIN COMPOSITE_PRESETS[n] = {"r", "g", "b"}
              /\ \A k \in {"r", "g", "b"} : COMPOSITE_PRESETS[n][k] \in BandIds
        /\ (result.fn = "get_composite_preset" /\ result.args[1] \in names) =>
              /\ result.exc = "none"
              /\ result.ret.ref = result.args[1]
              /\ Deref(result.ret) = COMPOSITE_PRESETS[result.args[1]]
              /\ result.args[1] = "True Color" =>
                    Deref(result.ret) = [r |-> "B04", g |-> "B03", b |-> "B02"]
        /\ (result.fn = "get_composite_preset" /\ result.args[1] \notin names) =>
              result.exc = "KeyError" /\ result.ret = <<>>

\* C7 witness: a failed lookup of an unknown name after a successful lookup
\* of True Color
C7_Witness ==
    /\ result.fn = "get_composite_preset"
    /\ result.args[1] = "Invalid Preset"
    /\ result.exc = "KeyError"
    /\ Len(held) >= 1
    /\ Deref(held[1]) = [r |-> "B04", g |-> "B03", b |-> "B02"]

\* the marked subdirectories of root and the dates their names embed
MarkedDirs == {e \in root : e.is_dir /\ Contains(e.name, MARKER)}

Ascending(dates) ==
    \A i \in 1..(Len(dates) - 1) : DateLt(dates[i], dates[i + 1])

\* C9: for every root directory content, discover_dates returns the dates
\* embedded in the names of the subdirectories that carry the marker
\* 'Sentinel-2_L2A', ascending and distinct (no date twice, also when two
\* marked subdirectories embed the same date); plain files and unmarked
\* subdirectories contribute no date.
C9_SortedDistinctDates ==
    (result.fn = "discover_dates") =>
        /\ result.exc = "none"
        /\ Ascending(result.ret)
        /\ Range(result.ret) =
              {strptime(SplitFirst(e.name, SEPARATOR)) : e \in MarkedDirs}

\* C10: for every root directory content and every date d returned by
\* discover_dates(root), get_date_directory(root, d) succeeds and returns a
\* subdirectory of root whose name embeds d and contains the marker
\* 'Sentinel-2_L2A', whatever else root holds and in whatever order it is
\* enumerated.
C10_DirectoryOfDiscoveredDate ==
    (/\ result.fn = "get_date_directory"
     /\ \E order \in Orders(root) :
           LET found == discover_dates(order)
           IN  found.exc = "none" /\ result.args[1] \in Range(found.ret))
    => /\ result.exc = "none"
       /\ result.ret \in root
       /\ result.ret.is_dir
       /\ Contains(result.ret.name, MARKER)
       /\ strptime(SplitFirst(result.ret.name, SEPARATOR)) = result.args[1]

MinusOne == <<-1, 1>>

InUnitBall(x) == FLe(MinusOne, x) /\ FLe(x, One)

\* C11 as stated: for all band arrays of numeric values and all masks, every
\* value of the array returned by calculate_ndvi, calculate_moisture_index,
\* calculate_ndwi and calculate_ndsi lies in the range [-1, 1].
C11_AsStated ==
    \A fn \in IndexFns :
        Returned(fn) =>
            \A i \in 1..Len(result.ret.data) : InUnitBall(result.ret.data[i])

\* C11, where the range does hold: every value returned by the four index
\* calculators lies in [-1, 1] at each pixel that is masked or whose two
\* band values are both non-negative.
C11_RangeForNonNegativeBands ==
    \A fn \in IndexFns :
        Returned(fn) =>
            LET ids == IndexBands(fn)
            IN  \A i \in 1..Len(result.ret.data) :
                   (\/ masks[ids[1]].data[i] # VALID
                    \/ masks[ids[2]].data[i] # VALID
                    \/ /\ FLe(Zero, bands[ids[1]].data[i])
                       /\ FLe(Zero, bands[ids[2]].data[i]))
                   => InUnitBall(result.ret.data[i])

\* C11, the failing case: a moisture index with a valid pixel of non-negative
\* bands whose value is inside (0, 1) and a valid pixel with a negative band
\* value whose value is above 1
C11_OutOfRange ==
    /\ Returned("calculate_moisture_index")
    /\ \E i, j \in 1..Len(result.ret.data) :
          /\ FLt(Zero, bands["B11"].data[i])
          /\ FLt(bands["B11"].data[i], bands["B8A"].data[i])
          /\ masks["B8A"].data[i] = VALID /\ masks["B11"].data[i] = VALID
          /\ FLt(Zero, result.ret.data[i]) /\ FLt(result.ret.data[i], One)
          /\ FLt(bands["B11"].data[j], Zero)
          /\ FLt(One, result.ret.data[j])

\* the arrays the caller passes in
InputArrays == <<band, mask, bands, masks, index_data>>

\* C12: no transform mutates its inputs: after any sequence of calls to
\* normalize_band, the four index calculators, create_rgb_composite (with
\* normalize true or false) and create_index_visualization, every band array
\* and mask array passed in holds the values it held before the calls; the
\* masked-pixel zeroing and the combined-mask blackout change only the newly
\* produced output array.
C12_InputsUnchanged == [][InputArrays' = InputArrays]_vars

\* C12 witness: create_rgb_composite without normalization has blacked out a
\* pixel in its output while the three bands, which it read in place, still
\* hold a value other than 0 there
C12_Witness ==
    /\ Returned("create_rgb_composite")
    /\ result.args[4] = FALSE
    /\ \E i \in 1..Len(result.ret.data) :
          /\ result.ret.data[i] = <<0, 0, 0>>
          /\ masks[result.args[1]].data[i] # VALID
          /\ \A c \in 1..3 :
                FLt(Zero, bands[result.args[c]].data[i])
                /\ FLt(bands[result.args[c]].data[i], One)

\* C13: composite presets are immutable records and the registry is never
\* mutated after initialization: after any sequence of get_composite_preset
\* calls (successful or failing) and any modification a caller makes to a
\* record it received from get_composite_preset, a later get_composite_preset
\* of each of the 5 names still returns its initial (r, g, b) triple and the
\* registry still holds exactly the 5 initial presets.
C13_RegistryNeverMutated ==
    /\ COMPOSITE_PRESETS = InitialPresets
    /\ (Returned("get_composite_preset")) =>
          Deref(result.ret) = InitialPresets[result.args[1]]

\* C13, the failing case: a lookup of True Color made after the caller wrote
\* B08 into the record an earlier lookup of True Color returned gives r = B08
C13_LaterLookupSeesWrite ==
    /\ Returned("get_composite_preset")
    /\ result.args[1] = "True Color"
    /\ Len(held) = 2
    /\ held[1].ref = "True Color"
    /\ Deref(result.ret) = [r |-> "B08", g |-> "B03", b |-> "B02"]

\* the calculator named fn applied to a Band Set and a Mask Set
IndexCall(fn, bs, ms) ==
    CASE fn = "calculate_ndvi" -> calculate_ndvi(bs, ms)
      [] fn = "calculate_moisture_index" -> calculate_moisture_index(bs, ms)
      [] fn = "calculate_ndwi" -> calculate_ndwi(bs, ms)
      [] fn = "calculate_ndsi" -> calculate_ndsi(bs, ms)

\* the dictionary d with the entries of the two identifiers exchanged
Exchanged(d, ids) == [d EXCEPT ![ids[1]] = d[ids[2]], ![ids[2]] = d[ids[1]]]

\* the dictionary d with the first identifier's entry under both identifiers
Twice(d, ids) == [d EXCEPT ![ids[2]] = d[ids[1]]]

FNeg(x) == FSub(Zero, x)

\* C14: each normalized-difference index is antisymmetric in its two bands:
\* for every pair of band arrays and masks, computing the index with the two
\* bands (and their masks) exchanged gives, at every pixel, the negation of
\* the original result, with masked and zero-denominator pixels staying 0 in
\* both; in particular two identical bands give 0 everywhere.
C14_Antisymmetric ==
    \A fn \in IndexFns :
        Returned(fn) =>
            LET ids == IndexBands(fn)
                exchanged == IndexCall(fn, Exchanged(bands, ids),
                                       Exchanged(masks, ids))
                identical == IndexCall(fn, Twice(bands, ids), masks)
            IN  /\ exchanged.exc = "none"
                /\ exchanged.ret.shape = result.ret.shape
                /\ \A i \in 1..Len(result.ret.data) :
                      /\ exchanged.ret.data[i] = FNeg(result.ret.data[i])
                      /\ (\/ masks[ids[1]].data[i] # VALID
                          \/ masks[ids[2]].data[i] # VALID
                          \/ FAdd(bands[ids[1]].data[i],
                                  bands[ids[2]].data[i]) = Zero)
                         => /\ result.ret.data[i] = Zero
                            /\ exchanged.ret.data[i] = Zero
                /\ identical.exc = "none"
                /\ AllZero(identical.ret)

\* C14 witness: an NDSI with a pixel of value 0.6 whose exchange gives -0.6, a
\* pixel masked in the first band only and a band that is not 0 everywhere
C14_Witness ==
    /\ Returned("calculate_ndsi")
    /\ \E i, j \in 1..Len(result.ret.data) :
          /\ result.ret.data[i] = <<3, 5>>
          /\ IndexCall("calculate_ndsi",
                       Exchanged(bands, <<"B03", "B11">>),
                       Exchanged(masks, <<"B03", "B11">>)).ret.data[i]
                = <<-3, 5>>
          /\ masks["B03"].data[j] # VALID /\ masks["B11"].data[j] = VALID
          /\ result.ret.data[j] = Zero
    /\ ~AllZero(bands["B03"])

====
